---- MODULE Spec2Model ----
(***************************************************************************)
(* CSV ingestion + reconciliation core of the SEO report generator         *)
(* (src/main.py, src/report_from_csv.py).                                  *)
(*                                                                         *)
(* Strings that the code inspects character by character (URLs, blog       *)
(* markers, CSV headers) are sequences of one-character strings.  Python   *)
(* None is the empty tuple <<>> and a present value v is <<v>>.  Traffic   *)
(* values are integers; a ratio is kept exact as numerator/denominator.    *)
(* Float arithmetic is exact on the small integers of these pools; the     *)
(* section on float traffic carries values up to 2^53 and their rounding.  *)
(***************************************************************************)
EXTENDS Integers, Sequences, FiniteSets, TLC

VARIABLES
    prev_pages,   \* PageRecords extracted from the previous-period file
    curr_pages,   \* PageRecords extracted from the current-period file
    blog_paths,   \* the blog_paths argument given to merge_months (None or a list)
    merged,       \* the value returned by merge_months, None before the call
    pc,           \* "input" while records are collected, "done" after merge_months
    headers,      \* header list given to guess_column
    kind,         \* kind given to guess_column
    guessed,      \* value returned by guess_column(headers, kind)
    shuffled,     \* the same header row with its columns in another order
    reguessed,    \* value returned by guess_column(shuffled, kind)
    gpc,          \* "start", "guessed" after the first call, "shuffled" after the second
    load,         \* frame of one load_csv_pages_from_bytes / load_csv_pages_auto call
    req,          \* per request: its inputs, position and outcome
    frames        \* per call frame of generate_report / main: its local variables

vars == <<prev_pages, curr_pages, blog_paths, merged, pc,
          headers, kind, guessed, shuffled, reguessed, gpc,
          load, req, frames>>

mergeVars == <<prev_pages, curr_pages, blog_paths, merged, pc>>
guessVars == <<headers, kind, guessed, shuffled, reguessed, gpc>>
runVars == <<req, frames>>

----------------------------------------------------------------------------
(* Bounds *)

MaxRows == 3      \* total number of records over both periods
MaxHeaders == 3   \* number of columns of a header row
MaxFileRows == 2  \* number of data rows of a CSV file

----------------------------------------------------------------------------
(* Python values *)

None == <<>>
Some(v) == <<v>>
IsNone(o) == o = <<>>
Val(o) == o[1]

\* Variant: the needle is only looked for at the start of hay (startswith)
Contains_prefix(hay, needle) ==
    /\ Len(needle) <= Len(hay)
    /\ \A j \in 1..Len(needle) : hay[j] = needle[j]

\* `needle in hay` for Python strings
Contains(hay, needle) ==
    \E i \in 0..(Len(hay) - Len(needle)) :
        \A j \in 1..Len(needle) : hay[i + j] = needle[j]

\* any(path in url for path in blog_paths)
AnyPathIn(url, paths) ==
    \E k \in 1..Len(paths) : Contains(url, paths[k])

----------------------------------------------------------------------------
(* Input pools *)

Url_blog_a    == <<"/","b","l","o","g","/","a">>
Url_about     == <<"/","a","b","o","u","t">>
Url_en_column == <<"/","e","n","/","c","o","l","u","m","n">>

PageRecords ==
    [url : {Url_blog_a, Url_about, Url_en_column},
     traffic : {-1, 0, 2},
     top_keyword : {None, Some("kw1")}]

Marker_blog   == <<"/","b","l","o","g">>
Marker_column == <<"/","c","o","l","u","m","n">>
Marker_ab     == <<"/","a","b">>

DefaultBlogPaths == <<Marker_blog, Marker_column>>

BlogPathArgs ==
    {None, Some(<<>>), Some(<<Marker_blog>>), Some(<<Marker_column, Marker_ab>>)}

----------------------------------------------------------------------------
(* summarize_pages *)

RECURSIVE SumPrev(_)
SumPrev(pages) ==
    IF pages = <<>> THEN 0
    ELSE Head(pages).prev_traffic + SumPrev(Tail(pages))

\* Variant: the current total sums the previous-period column
SumCurrent_prev(pages) == SumPrev(pages)

RECURSIVE SumCurrent(_)
SumCurrent(pages) ==
    IF pages = <<>> THEN 0
    ELSE Head(pages).current_traffic + SumCurrent(Tail(pages))

\* Variant: the ratio is computed for every non-zero baseline
Ratio_nonzero(diff, base) ==
    IF base /= 0 THEN Some([num |-> diff * 100, den |-> base]) ELSE None

\* (diff / base * 100.0) if base > 0 else None
Ratio(diff, base) ==
    IF base > 0 THEN Some([num |-> diff * 100, den |-> base]) ELSE None

summarize_pages(pages) ==
    IF pages = <<>>
    THEN [total_traffic_prev    |-> 0,
          total_traffic_current |-> 0,
          total_diff            |-> 0,
          total_diff_ratio      |-> None,
          page_count            |-> 0]
    ELSE LET total_prev    == SumPrev(pages)
             total_current == SumCurrent(pages)
             diff          == total_current - total_prev
         IN  [total_traffic_prev    |-> total_prev,
              total_traffic_current |-> total_current,
              total_diff            |-> diff,
              total_diff_ratio      |-> Ratio(diff, total_prev),
              page_count            |-> Len(pages)]

----------------------------------------------------------------------------
(* merge_months *)

\* The dict `merged` is a sequence of entries in insertion order; an entry
\* is its key and the fields set so far (a field never set reads as None).
EmptyData ==
    [prev_traffic |-> None, top_keyword_prev |-> None,
     current_traffic |-> None, top_keyword_current |-> None]

\* float(x or 0.0)
FloatOrZero(o) == IF IsNone(o) \/ Val(o) = 0 THEN 0 ELSE Val(o)

HasKey(d, url) == \E i \in 1..Len(d) : d[i].key = url

KeyIndex(d, url) == CHOOSE i \in 1..Len(d) : d[i].key = url

\* Variant: a new entry is appended even when the key is present
SetDefault_always(d, url) == Append(d, [key |-> url, data |-> EmptyData])

\* merged.setdefault(url, {})
SetDefault(d, url) ==
    IF HasKey(d, url) THEN d ELSE Append(d, [key |-> url, data |-> EmptyData])

\* Variant: a repeated URL adds its traffic to the value already stored
PutPrev_sum(d, p) ==
    LET d1 == SetDefault(d, p.url)
        i  == KeyIndex(d1, p.url)
    IN  [d1 EXCEPT ![i].data.prev_traffic =
                        Some(FloatOrZero(d1[i].data.prev_traffic) + p.traffic),
                   ![i].data.top_keyword_prev = p.top_keyword]

\* body of `for p in prev_pages`
PutPrev(d, p) ==
    LET d1 == SetDefault(d, p.url)
        i  == KeyIndex(d1, p.url)
    IN  [d1 EXCEPT ![i].data.prev_traffic = Some(p.traffic),
                   ![i].data.top_keyword_prev = p.top_keyword]

\* Variant: the current-period loop writes the previous-period fields
PutCurr_prev(d, p) ==
    LET d1 == SetDefault(d, p.url)
        i  == KeyIndex(d1, p.url)
    IN  [d1 EXCEPT ![i].data.prev_traffic = Some(p.traffic),
                   ![i].data.top_keyword_prev = p.top_keyword]

\* body of `for p in curr_pages`
PutCurr(d, p) ==
    LET d1 == SetDefault(d, p.url)
        i  == KeyIndex(d1, p.url)
    IN  [d1 EXCEPT ![i].data.current_traffic = Some(p.traffic),
                   ![i].data.top_keyword_current = p.top_keyword]

RECURSIVE FoldPrev(_, _)
FoldPrev(d, pages) ==
    IF pages = <<>> THEN d ELSE FoldPrev(PutPrev(d, Head(pages)), Tail(pages))

RECURSIVE FoldCurr(_, _)
FoldCurr(d, pages) ==
    IF pages = <<>> THEN d ELSE FoldCurr(PutCurr(d, Head(pages)), Tail(pages))

\* body of `for url, data in merged.items()`
MakePage(entry, paths) ==
    LET prev_tr == FloatOrZero(entry.data.prev_traffic)
        curr_tr == FloatOrZero(entry.data.current_traffic)
        diff    == curr_tr - prev_tr
    IN  [url                 |-> entry.key,
         prev_traffic        |-> prev_tr,
         current_traffic     |-> curr_tr,
         diff                |-> diff,
         diff_ratio          |-> Ratio(diff, prev_tr),
         top_keyword_prev    |-> entry.data.top_keyword_prev,
         top_keyword_current |-> entry.data.top_keyword_current,
         is_blog             |-> AnyPathIn(entry.key, paths)]

\* Variant: the filter keeps the pages that are not blog pages
RECURSIVE BlogOnly_not(_)
BlogOnly_not(pages) ==
    IF pages = <<>> THEN <<>>
    ELSE IF ~Head(pages).is_blog THEN <<Head(pages)>> \o BlogOnly_not(Tail(pages))
         ELSE BlogOnly_not(Tail(pages))

\* [p for p in pages if p["is_blog"]]
RECURSIVE BlogOnly(_)
BlogOnly(pages) ==
    IF pages = <<>> THEN <<>>
    ELSE IF Head(pages).is_blog THEN <<Head(pages)>> \o BlogOnly(Tail(pages))
         ELSE BlogOnly(Tail(pages))

\* Variant: the current-period loop runs before the previous-period loop
merge_months_curr_first(prev, curr, paths_arg) ==
    LET paths == IF IsNone(paths_arg) THEN DefaultBlogPaths ELSE Val(paths_arg)
        d     == FoldPrev(FoldCurr(<<>>, curr), prev)
        pages == [i \in 1..Len(d) |-> MakePage(d[i], paths)]
    IN  [pages   |-> pages,
         summary |-> [all       |-> summarize_pages(pages),
                      blog_only |-> summarize_pages(BlogOnly(pages))]]

merge_months(prev, curr, paths_arg) ==
    LET paths == IF IsNone(paths_arg) THEN DefaultBlogPaths ELSE Val(paths_arg)
        d     == FoldCurr(FoldPrev(<<>>, prev), curr)
        pages == [i \in 1..Len(d) |-> MakePage(d[i], paths)]
    IN  [pages   |-> pages,
         summary |-> [all       |-> summarize_pages(pages),
                      blog_only |-> summarize_pages(BlogOnly(pages))]]

----------------------------------------------------------------------------
(* Reconciliation run *)

\* no ingestion call and no request in progress
InitLoadIdle == load = None
InitRunIdle == req = <<>> /\ frames = <<>>

InitMerge ==
    /\ prev_pages = <<>>
    /\ curr_pages = <<>>
    /\ blog_paths = None
    /\ merged = None
    /\ pc = "input"

\* pages.append({...}) while the previous-period file is read
AppendPrev ==
    /\ pc = "input"
    /\ Len(prev_pages) + Len(curr_pages) < MaxRows
    /\ curr_pages = <<>>
    /\ \E r \in PageRecords : prev_pages' = Append(prev_pages, r)
    /\ UNCHANGED <<curr_pages, blog_paths, merged, pc>>

\* pages.append({...}) while the current-period file is read
AppendCurr ==
    /\ pc = "input"
    /\ Len(prev_pages) + Len(curr_pages) < MaxRows
    /\ \E r \in PageRecords : curr_pages' = Append(curr_pages, r)
    /\ UNCHANGED <<prev_pages, blog_paths, merged, pc>>

CallMerge ==
    /\ pc = "input"
    /\ \E b \in BlogPathArgs :
          /\ blog_paths' = b
          /\ merged' = Some(merge_months(prev_pages, curr_pages, b))
    /\ pc' = "done"
    /\ UNCHANGED <<prev_pages, curr_pages>>

InitGuessIdle ==
    /\ headers = <<>>
    /\ kind = "url"
    /\ guessed = None
    /\ shuffled = <<>>
    /\ reguessed = None
    /\ gpc = "start"

Init == InitMerge /\ InitGuessIdle /\ InitLoadIdle /\ InitRunIdle

Next ==
    \/ AppendPrev /\ UNCHANGED <<guessVars, load, runVars>>
    \/ AppendCurr /\ UNCHANGED <<guessVars, load, runVars>>
    \/ CallMerge /\ UNCHANGED <<guessVars, load, runVars>>

Spec == Init /\ [][Next]_vars

----------------------------------------------------------------------------
(* guess_column *)

UpperLetters == <<"A","B","C","D","E","F","G","H","I","J","K","L","M","N","O","P","Q","R","S","T","U","V","W","X","Y","Z">>
LowerLetters == <<"a","b","c","d","e","f","g","h","i","j","k","l","m","n","o","p","q","r","s","t","u","v","w","x","y","z">>

\* Variant: the header is compared as written (no .lower())
Lower_identity(h) == h

\* h.lower()
Lower(h) ==
    [i \in 1..Len(h) |->
        IF \E k \in 1..26 : UpperLetters[k] = h[i]
        THEN LowerLetters[CHOOSE k \in 1..26 : UpperLetters[k] = h[i]]
        ELSE h[i]]

\* `candidates` of each kind, in the order of the list literal
Candidates(k) ==
    CASE k = "url" ->
            << <<"u","r","l">>,
               <<"p","a","g","e"," ","u","r","l">>,
               <<"l","i","n","k"," ","u","r","l">>,
               <<"ペ","ー","ジ","u","r","l">>,
               <<"リ","ン","ク","u","r","l">> >>
      [] k = "traffic" ->
            << <<"t","r","a","f","f","i","c">>,
               <<"o","r","g","a","n","i","c"," ","t","r","a","f","f","i","c">>,
               <<"s","e","a","r","c","h"," ","t","r","a","f","f","i","c">>,
               <<"ト","ラ","フ","ィ","ッ","ク">> >>
      [] k = "keyword" ->
            << <<"t","o","p"," ","k","e","y","w","o","r","d">>,
               <<"t","o","p"," ","k","e","y","w","o","r","d","s">>,
               <<"k","e","y","w","o","r","d">>,
               <<"k","e","y","w","o","r","d","s">>,
               <<"キ","ー","ワ","ー","ド">> >>

\* `contains` of each kind
Tokens(k) ==
    CASE k = "url"     -> << <<"u","r","l">>, <<"ペ","ー","ジ">>, <<"リ","ン","ク">> >>
      [] k = "traffic" -> << <<"t","r","a","f","f","i","c">>, <<"ト","ラ","フ","ィ","ッ","ク">> >>
      [] k = "keyword" -> << <<"k","e","y","w","o","r","d">>, <<"キ","ー","ワ","ー","ド">> >>

KnownKinds == {"url", "traffic", "keyword"}

\* Variant: the dict keeps the first header of each lower-cased form
Lowers_first(hs) ==
    [key \in {Lower(hs[i]) : i \in 1..Len(hs)} |->
        hs[CHOOSE i \in 1..Len(hs) :
              /\ Lower(hs[i]) = key
              /\ \A j \in 1..(i - 1) : Lower(hs[j]) /= key]]

\* lowers = {h.lower(): h for h in headers}: a later header replaces an
\* earlier one that has the same lower-cased form
Lowers(hs) ==
    [key \in {Lower(hs[i]) : i \in 1..Len(hs)} |->
        hs[CHOOSE i \in 1..Len(hs) :
              /\ Lower(hs[i]) = key
              /\ \A j \in (i + 1)..Len(hs) : Lower(hs[j]) /= key]]

\* for cand in candidates: if cand in lowers: return lowers[cand]
RECURSIVE ExactPass(_, _)
ExactPass(lowers, cands) ==
    IF cands = <<>> THEN None
    ELSE IF Head(cands) \in DOMAIN lowers THEN Some(lowers[Head(cands)])
         ELSE ExactPass(lowers, Tail(cands))

\* any(s in hl for s in contains)
AnyTokenIn(hl, tokens) == \E t \in 1..Len(tokens) : Contains(hl, tokens[t])

\* for h in headers: if any(s in h.lower() for s in contains): return h
RECURSIVE SubstringPass(_, _)
SubstringPass(hs, tokens) ==
    IF hs = <<>> THEN None
    ELSE IF AnyTokenIn(Lower(Head(hs)), tokens) THEN Some(Head(hs))
         ELSE SubstringPass(Tail(hs), tokens)

\* Variant: one pass in header order, a header matching either way wins
RECURSIVE SinglePass(_, _)
SinglePass(hs, k) ==
    IF hs = <<>> THEN None
    ELSE IF \/ \E c \in 1..Len(Candidates(k)) : Lower(Head(hs)) = Candidates(k)[c]
            \/ AnyTokenIn(Lower(Head(hs)), Tokens(k))
         THEN Some(Head(hs))
         ELSE SinglePass(Tail(hs), k)

guess_column_single_pass(hs, k) ==
    IF k \notin KnownKinds THEN None ELSE SinglePass(hs, k)

guess_column(hs, k) ==
    IF k \notin KnownKinds THEN None
    ELSE LET exact == ExactPass(Lowers(hs), Candidates(k))
         IN  IF ~IsNone(exact) THEN exact
             ELSE SubstringPass(hs, Tokens(k))

\* `candidates` of the command line tool's guess_column (report_from_csv.py)
CandidatesCli(k) ==
    CASE k = "url" ->
            << <<"u","r","l">>,
               <<"p","a","g","e"," ","u","r","l">>,
               <<"l","i","n","k"," ","u","r","l">>,
               <<"リ","ン","ク","u","r","l">>,
               <<"リ","ン","ク"," ","u","r","l">>,
               <<"ペ","ー","ジ","u","r","l">> >>
      [] k = "traffic" ->
            << <<"t","r","a","f","f","i","c">>,
               <<"o","r","g","a","n","i","c"," ","t","r","a","f","f","i","c">>,
               <<"s","e","a","r","c","h"," ","t","r","a","f","f","i","c">>,
               <<"ト","ラ","フ","ィ","ッ","ク">>,
               <<"オ","ー","ガ","ニ","ッ","ク","ト","ラ","フ","ィ","ッ","ク">> >>
      [] k = "keyword" ->
            << <<"t","o","p"," ","k","e","y","w","o","r","d">>,
               <<"t","o","p"," ","k","e","y","w","o","r","d","s">>,
               <<"k","e","y","w","o","r","d">>,
               <<"k","e","y","w","o","r","d","s">>,
               <<"キ","ー","ワ","ー","ド">>,
               <<"ト","ッ","プ","キ","ー","ワ","ー","ド">> >>

\* guess_column of the command line tool: same two passes, its own candidates
guess_column_cli(hs, k) ==
    IF k \notin KnownKinds THEN None
    ELSE LET exact == ExactPass(Lowers(hs), CandidatesCli(k))
         IN  IF ~IsNone(exact) THEN exact
             ELSE SubstringPass(hs, Tokens(k))

\* the guess_column each program calls
GuessColumnOf(variant, hs, k) ==
    IF variant = "web" THEN guess_column(hs, k) ELSE guess_column_cli(hs, k)

----------------------------------------------------------------------------
(* Column inference runs *)

H_URL         == <<"U","R","L">>
H_url         == <<"u","r","l">>
H_Page_URL    == <<"P","a","g","e"," ","U","R","L">>
H_Keyword_URL == <<"K","e","y","w","o","r","d"," ","U","R","L">>
H_Pages_ja    == <<"ペ","ー","ジ">>
H_Traffic     == <<"T","r","a","f","f","i","c">>
H_Top_keyword == <<"T","o","p"," ","k","e","y","w","o","r","d">>
H_hits        == <<"h","i","t","s">>

HeaderPool ==
    {H_URL, H_url, H_Page_URL, H_Keyword_URL, H_Pages_ja, H_Traffic,
     H_Top_keyword, H_hits}

KindPool == KnownKinds \cup {"title"}

ColumnOrders(n) ==
    {f \in [1..n -> 1..n] : \A i, j \in 1..n : i /= j => f[i] /= f[j]}

InitGuess ==
    /\ headers \in UNION {[1..n -> HeaderPool] : n \in 0..MaxHeaders}
    /\ kind \in KindPool
    /\ guessed = None
    /\ shuffled = <<>>
    /\ reguessed = None
    /\ gpc = "start"

\* guess_column(headers, kind)
Guess ==
    /\ gpc = "start"
    /\ guessed' = guess_column(headers, kind)
    /\ gpc' = "guessed"
    /\ UNCHANGED <<headers, kind, shuffled, reguessed>>

\* guess_column on the same header row with its columns permuted
GuessShuffled ==
    /\ gpc = "guessed"
    /\ \E f \in ColumnOrders(Len(headers)) :
          /\ shuffled' = [i \in 1..Len(headers) |-> headers[f[i]]]
          /\ reguessed' = guess_column(shuffled', kind)
    /\ gpc' = "shuffled"
    /\ UNCHANGED <<headers, kind, guessed>>

NextGuess ==
    \/ Guess /\ UNCHANGED <<mergeVars, load, runVars>>
    \/ GuessShuffled /\ UNCHANGED <<mergeVars, load, runVars>>

InitColumns == InitGuess /\ InitMerge /\ InitLoadIdle /\ InitRunIdle

SpecGuess == InitColumns /\ [][NextGuess]_vars

----------------------------------------------------------------------------
(* Row extraction: load_csv_pages_from_bytes / load_csv_pages_auto *)

\* the truth value Python gives an optional string: None and "" are falsy
Falsy(o) == IsNone(o) \/ Val(o) = <<>>

\* Variant: the thousands separators stay in the text
RemoveCommas_keep(s) == s

\* s.replace(",", "")
RECURSIVE RemoveCommas(_)
RemoveCommas(s) ==
    IF s = <<>> THEN <<>>
    ELSE IF Head(s) = "," THEN RemoveCommas(Tail(s))
         ELSE <<Head(s)>> \o RemoveCommas(Tail(s))

IsSpace(c) == c \in {" ", "\t"}

RECURSIVE LStrip(_)
LStrip(s) ==
    IF s /= <<>> /\ IsSpace(Head(s)) THEN LStrip(Tail(s)) ELSE s

RECURSIVE RStrip(_)
RStrip(s) ==
    IF s /= <<>> /\ IsSpace(s[Len(s)]) THEN RStrip(SubSeq(s, 1, Len(s) - 1)) ELSE s

\* s.strip()
Strip(s) == RStrip(LStrip(s))

DigitChars == <<"0","1","2","3","4","5","6","7","8","9">>

IsDigit(c) == \E d \in 1..10 : DigitChars[d] = c

DigitValue(c) == (CHOOSE d \in 1..10 : DigitChars[d] = c) - 1

RECURSIVE DigitsValue(_)
DigitsValue(s) ==
    IF s = <<>> THEN 0
    ELSE DigitsValue(SubSeq(s, 1, Len(s) - 1)) * 10 + DigitValue(s[Len(s)])

\* float(s) for texts made of digits, signs, blanks and commas: the value,
\* or None where Python raises ValueError
ParseFloat(s) ==
    LET signed == s /= <<>> /\ Head(s) \in {"-", "+"}
        digits == IF signed THEN Tail(s) ELSE s
    IN  IF digits = <<>> \/ \E i \in 1..Len(digits) : ~IsDigit(digits[i])
        THEN None
        ELSE Some(IF signed /\ Head(s) = "-" THEN 0 - DigitsValue(digits)
                  ELSE DigitsValue(digits))

\* row.get(col) on a csv.DictReader row: the field of the last column that
\* carries the name, None when no column does (or the row is too short)
RowGet(header, row, col) ==
    IF IsNone(col) \/ ~\E i \in 1..Len(header) : header[i] = Val(col) THEN None
    ELSE row[CHOOSE i \in 1..Len(header) :
                /\ header[i] = Val(col)
                /\ \A j \in (i + 1)..Len(header) : header[j] /= Val(col)]

\* Variant: a row with an empty URL is kept
ExtractRow_keep_empty_url(header, row, cols) ==
    LET url         == RowGet(header, row, cols.url)
        traffic_raw == RowGet(header, row, cols.traffic)
    IN  IF IsNone(url) \/ IsNone(traffic_raw) THEN None
        ELSE LET cleaned == Strip(RemoveCommas(Val(traffic_raw)))
                 traffic == ParseFloat(cleaned)
             IN  IF cleaned = <<>> \/ IsNone(traffic) THEN None
                 ELSE Some([url |-> Val(url), traffic |-> Val(traffic),
                            top_keyword |-> RowGet(header, row, cols.keyword)])

\* body of `for row in reader`: the PageRecord appended, None for `continue`
ExtractRow(header, row, cols) ==
    LET url         == RowGet(header, row, cols.url)
        traffic_raw == RowGet(header, row, cols.traffic)
    IN  IF Falsy(url) \/ IsNone(traffic_raw) THEN None
        ELSE LET cleaned == Strip(RemoveCommas(Val(traffic_raw)))
             IN  IF cleaned = <<>> THEN None
                 ELSE LET traffic == ParseFloat(cleaned)
                      IN  IF IsNone(traffic) THEN None
                          ELSE Some([url |-> Val(url),
                                     traffic |-> Val(traffic),
                                     top_keyword |->
                                        RowGet(header, row, cols.keyword)])

\* Variant: a supplied column name that the header lacks is replaced by the
\* inferred column
ResolveColumn_validated(variant, opt, header, k) ==
    IF Falsy(opt) \/ ~\E i \in 1..Len(header) : header[i] = Val(opt)
    THEN GuessColumnOf(variant, header, k)
    ELSE opt

\* url_col_opt or guess_column(headers, "url"), and likewise
ResolveColumn(variant, opt, header, k) ==
    IF Falsy(opt) THEN GuessColumnOf(variant, header, k) ELSE opt

ResolveColumns(variant, header, opts) ==
    [url     |-> ResolveColumn(variant, opts.url, header, "url"),
     traffic |-> ResolveColumn(variant, opts.traffic, header, "traffic"),
     keyword |-> ResolveColumn(variant, opts.keyword, header, "keyword")]

\* Variant: the keyword column is not required
MissingKinds_keyword_optional(cols) ==
    (IF Falsy(cols.url) THEN <<"url">> ELSE <<>>)
    \o (IF Falsy(cols.traffic) THEN <<"traffic">> ELSE <<>>)

\* the list `missing`, each label written as the kind it stands for
MissingKinds(cols) ==
    (IF Falsy(cols.url) THEN <<"url">> ELSE <<>>)
    \o (IF Falsy(cols.traffic) THEN <<"traffic">> ELSE <<>>)
    \o (IF Falsy(cols.keyword) THEN <<"keyword">> ELSE <<>>)

----------------------------------------------------------------------------
(* Encoding resolution *)

\* encodings tried, in order, by the web backend and by the command line tool
EncodingList(variant) ==
    IF variant = "web"
    THEN <<"utf-8-sig", "cp932", "utf-16", "utf-16-le", "utf-16-be">>
    ELSE <<"utf-8-sig", "cp932">>

AllEncodings == {"utf-8-sig", "cp932", "utf-16", "utf-16-le", "utf-16-be"}

\* A file is its content (header and rows as csv.DictReader yields them) and,
\* per encoding, where decoding its bytes fails: "none" (it decodes whole),
\* "early" (inside the first chunk read) or "late" (after the first chunk,
\* in the last data row).

\* file_bytes.decode(enc) succeeds
DecodesWhole(file, enc) == file.bad[enc] = "none"

\* for enc in [...]: try: text = file_bytes.decode(enc); break
RECURSIVE FirstDecoding(_, _)
FirstDecoding(file, encs) ==
    IF encs = <<>> THEN None
    ELSE IF DecodesWhole(file, Head(encs)) THEN Some(Head(encs))
         ELSE FirstDecoding(file, Tail(encs))

\* try_open_csv: open(...), f.readline(), f.seek(0) only decodes the first chunk
RECURSIVE FirstOpening(_, _)
FirstOpening(file, encs) ==
    IF encs = <<>> THEN None
    ELSE IF file.bad[Head(encs)] /= "early" THEN Some(Head(encs))
         ELSE FirstOpening(file, Tail(encs))

\* the encoding the rows are read with, None when the resolver gives up
ResolveEncoding(variant, file) ==
    IF variant = "web" THEN FirstDecoding(file, EncodingList(variant))
    ELSE FirstOpening(file, EncodingList(variant))

----------------------------------------------------------------------------
(* One ingestion call, statement by statement *)

\* exceptions: HTTPException(400, ...) in the web backend; UnicodeDecodeError
\* and ValueError in the command line tool
EncodingFailure(variant) ==
    IF variant = "web"
    THEN [exc |-> "HTTPException", status_code |-> 400, detail |-> "encoding",
          missing |-> <<>>, headers |-> <<>>]
    ELSE [exc |-> "UnicodeDecodeError", status_code |-> 0, detail |-> "encoding",
          missing |-> <<>>, headers |-> <<>>]

MissingColumnFailure(variant, missing, header) ==
    IF variant = "web"
    THEN [exc |-> "HTTPException", status_code |-> 400,
          detail |-> "missing_columns", missing |-> missing, headers |-> header]
    ELSE [exc |-> "ValueError", status_code |-> 0,
          detail |-> "missing_columns", missing |-> missing, headers |-> header]

\* the codec error raised by the file iterator while rows are read
ScanDecodeFailure ==
    [exc |-> "UnicodeDecodeError", status_code |-> 0, detail |-> "codec",
     missing |-> <<>>, headers |-> <<>>]

NoCols == [url |-> None, traffic |-> None, keyword |-> None]

\* frame at entry of the call
NewLoad(variant, file, opts) ==
    [variant |-> variant, file |-> file, opts |-> opts, pc |-> "decode",
     enc |-> None, cols |-> NoCols, pos |-> 0, pages |-> <<>>, err |-> None]

\* the encoding loop / try_open_csv
StepDecode(f) ==
    LET enc == ResolveEncoding(f.variant, f.file)
    IN  IF IsNone(enc)
        THEN [f EXCEPT !.pc = "raised", !.err = Some(EncodingFailure(f.variant))]
        ELSE [f EXCEPT !.pc = "header", !.enc = enc]

\* reader.fieldnames, column resolution and the `missing` check
StepHeader(f) ==
    LET cols    == ResolveColumns(f.variant, f.file.header, f.opts)
        missing == MissingKinds(cols)
    IN  IF missing /= <<>>
        THEN [f EXCEPT !.pc = "raised",
                       !.err = Some(MissingColumnFailure(f.variant, missing,
                                                         f.file.header))]
        ELSE [f EXCEPT !.pc = "rows", !.cols = cols]

\* one iteration of `for row in reader`, or leaving the loop
StepRow(f) ==
    IF f.pos = Len(f.file.rows) THEN [f EXCEPT !.pc = "returned"]
    ELSE IF f.file.bad[Val(f.enc)] = "late" /\ f.pos + 1 = Len(f.file.rows)
         THEN [f EXCEPT !.pc = "raised", !.err = Some(ScanDecodeFailure)]
         ELSE LET rec == ExtractRow(f.file.header, f.file.rows[f.pos + 1], f.cols)
              IN  [f EXCEPT !.pos = f.pos + 1,
                            !.pages = IF IsNone(rec) THEN f.pages
                                      ELSE Append(f.pages, Val(rec))]

\* the whole call: the frame when it returns or raises
RECURSIVE RunLoad(_)
RunLoad(f) ==
    CASE f.pc = "decode" -> RunLoad(StepDecode(f))
      [] f.pc = "header" -> RunLoad(StepHeader(f))
      [] f.pc = "rows"   -> RunLoad(StepRow(f))
      [] OTHER           -> f

load_csv_pages(variant, file, opts) == RunLoad(NewLoad(variant, file, opts))

----------------------------------------------------------------------------
(* Files *)

H_link == <<"l","i","n","k">>

Url_contact == <<"/","c","o","n","t","a","c","t">>


Kw1 == <<"k","w","1">>

\* data rows of three fields; a missing trailing field reads as None
Row_blog_a_1000 == <<Some(Url_blog_a), Some(<<"1",",","0","0","0">>), Some(Kw1)>>
Row_about_500   == <<Some(Url_about), Some(<<"5","0","0">>), None>>
Row_blog_a_1500 == <<Some(Url_blog_a), Some(<<"1","5","0","0">>), None>>
Row_contact_10  == <<Some(Url_contact), Some(<<"1","0">>), None>>
Row_dash        == <<Some(Url_about), Some(<<"-">>), Some(Kw1)>>
Row_no_traffic  == <<Some(Url_contact), Some(<<>>), Some(Kw1)>>
Row_no_url      == <<Some(<<>>), Some(<<"5","0","0">>), Some(Kw1)>>
Row_negative    == <<Some(Url_contact), Some(<<"-","5">>), Some(Kw1)>>

Header_std       == <<H_URL, H_Traffic, H_Top_keyword>>
Header_link_hits == <<H_link, H_hits, H_Top_keyword>>

DecodableAs(enc) ==
    [e \in AllEncodings |->
        IF e = enc THEN "none"
        ELSE IF enc = "utf-8-sig" /\ e = "cp932" THEN "none" ELSE "early"]

Bytes_ascii      == DecodableAs("utf-8-sig")
Bytes_cp932_late == [DecodableAs("cp932") EXCEPT !["utf-8-sig"] = "late"]
Bytes_binary     == [e \in AllEncodings |-> "early"]

\* headers in the usual order, reordered, under other names and without a
\* keyword column; rows with a padded traffic text and with missing trailing
\* fields among them; bytes of each encoding.  A late decoding error sits in
\* a data row, so such a file has one
Files ==
    {f \in [header : {Header_std, <<H_Traffic, H_URL, H_Top_keyword>>,
                      Header_link_hits, <<H_URL, H_Traffic, H_hits>>},
          rows : UNION {[1..n ->
                            {Row_blog_a_1000, Row_about_500, Row_blog_a_1500,
                             Row_contact_10, Row_dash, Row_no_traffic,
                             Row_no_url, Row_negative,
                             <<Some(Url_about), Some(<<" ","2",",","0"," ">>),
                               None>>,
                             <<Some(Url_about), None, None>>}] :
                        n \in 0..MaxFileRows},
          bad : {Bytes_ascii, DecodableAs("cp932"), Bytes_cp932_late,
                 DecodableAs("utf-16"), Bytes_binary}] :
        f.bad = Bytes_cp932_late => f.rows /= <<>>}

AutoCols == NoCols

LinkHitsCols ==
    [url |-> Some(H_link), traffic |-> Some(H_hits), keyword |-> None]

ColumnOptions ==
    {AutoCols,
     LinkHitsCols,
     [url |-> Some(<<>>), traffic |-> None, keyword |-> Some(H_hits)]}

InitLoad ==
    /\ \E v \in {"web", "cli"}, f \in Files, o \in ColumnOptions :
          load = Some(NewLoad(v, f, o))
    /\ InitMerge /\ InitGuessIdle /\ InitRunIdle

Frame == Val(load)

LoadDecode ==
    /\ Frame.pc = "decode"
    /\ load' = Some(StepDecode(Frame))

LoadHeader ==
    /\ Frame.pc = "header"
    /\ load' = Some(StepHeader(Frame))

LoadRow ==
    /\ Frame.pc = "rows"
    /\ Frame.pos < Len(Frame.file.rows)
    /\ load' = Some(StepRow(Frame))

LoadReturn ==
    /\ Frame.pc = "rows"
    /\ Frame.pos = Len(Frame.file.rows)
    /\ load' = Some(StepRow(Frame))

NextLoad ==
    \/ LoadDecode /\ UNCHANGED <<mergeVars, guessVars, runVars>>
    \/ LoadHeader /\ UNCHANGED <<mergeVars, guessVars, runVars>>
    \/ LoadRow /\ UNCHANGED <<mergeVars, guessVars, runVars>>
    \/ LoadReturn /\ UNCHANGED <<mergeVars, guessVars, runVars>>

SpecLoad == InitLoad /\ [][NextLoad]_vars

----------------------------------------------------------------------------
(* One request of the web backend / one run of the command line tool *)

\* s.split(",")
RECURSIVE SplitComma(_)
SplitComma(s) ==
    IF \A i \in 1..Len(s) : s[i] /= "," THEN <<s>>
    ELSE LET i == CHOOSE k \in 1..Len(s) :
                     s[k] = "," /\ \A j \in 1..(k - 1) : s[j] /= ","
         IN  <<SubSeq(s, 1, i - 1)>> \o SplitComma(SubSeq(s, i + 1, Len(s)))

\* [p.strip() for p in blog_paths.split(",") if p.strip()]
BlogPathList(s) ==
    LET parts == SplitComma(s)
    IN  SelectSeq([i \in 1..Len(parts) |-> Strip(parts[i])],
                  LAMBDA q : q /= <<>>)

\* Variant: the run is refused when either file has no usable row
BothEmpty_either(prev, curr) == prev = <<>> \/ curr = <<>>

\* Variant: the run is never refused for lack of rows
BothEmpty_never(prev, curr) == FALSE

\* not prev_pages and not curr_pages
BothEmpty(prev, curr) == prev = <<>> /\ curr = <<>>

\* Variant: a failed ingestion is answered like a server fault
FailureStatus_server(variant, err) == IF variant = "web" THEN 500 ELSE 1

\* the HTTP status of the raised HTTPException; sys.exit(1) in the tool
FailureStatus(variant, err) == IF variant = "web" THEN err.status_code ELSE 1

\* Variant: all requests keep their local variables in one place
FrameOf_shared(r) == 1

\* each invocation has its own local variables
FrameOf(r) == r

\* the column names a run passes to the loader: the web backend passes none
OptsOf(q) == IF q.variant = "web" THEN AutoCols ELSE q.opts

NewLocals ==
    [prev_bytes |-> None, curr_bytes |-> None, prev_pages |-> <<>>,
     curr_pages |-> <<>>, merged |-> None]

\* a request as it arrives: its inputs (with the server's environment) and
\* an outcome still open
NewRequest(variant, server_token, token, api_key, prev, curr, opts, paths) ==
    [variant |-> variant, server_token |-> server_token, token |-> token,
     api_key |-> api_key, prev_file |-> prev, curr_file |-> curr,
     opts |-> opts, blog_paths |-> paths,
     pc |-> IF variant = "web" THEN "auth" ELSE "key",
     status |-> None, detail |-> None, report |-> None, summary |-> None,
     file_written |-> FALSE, calls |-> 0, sent |-> None, events |-> <<>>]

\* raise HTTPException(status, detail) / print(...); sys.exit(1)
Fail(q, status, detail) ==
    [q EXCEPT !.pc = "done", !.status = Some(status), !.detail = Some(detail)]

Passed(q, next, event) ==
    [q EXCEPT !.pc = next, !.events = Append(q.events, event)]

Locals(r) == frames[FrameOf(r)]

\* require_access_token(x_access_token)
RunAuth(r) ==
    /\ req[r].pc = "auth"
    /\ req' = [req EXCEPT ![r] =
                 IF ~req[r].server_token THEN Fail(req[r], 500, "token_unset")
                 ELSE IF req[r].token /= "ok" THEN Fail(req[r], 401, "unauthorized")
                 ELSE Passed(req[r], "key", "token_accepted")]
    /\ UNCHANGED frames

\* openai_api_key = os.getenv("OPENAI_API_KEY"); if not openai_api_key: ...
RunKey(r) ==
    /\ req[r].pc = "key"
    /\ req' = [req EXCEPT ![r] =
                 IF ~req[r].api_key
                 THEN Fail(req[r], IF req[r].variant = "web" THEN 500 ELSE 1,
                           "key_unset")
                 ELSE Passed(req[r],
                             IF req[r].variant = "web" THEN "read_prev"
                             ELSE "load_prev",
                             "key_found")]
    /\ UNCHANGED frames

\* prev_bytes = await prev_csv.read()
RunReadPrev(r) ==
    /\ req[r].pc = "read_prev"
    /\ frames' = [frames EXCEPT ![FrameOf(r)].prev_bytes = Some(req[r].prev_file)]
    /\ req' = [req EXCEPT ![r].pc = "read_curr"]

\* curr_bytes = await curr_csv.read()
RunReadCurr(r) ==
    /\ req[r].pc = "read_curr"
    /\ frames' = [frames EXCEPT ![FrameOf(r)].curr_bytes = Some(req[r].curr_file)]
    /\ req' = [req EXCEPT ![r].pc = "load_prev"]

\* prev_pages = load_csv_pages_from_bytes(prev_bytes) /
\* prev_pages = load_csv_pages_auto(args.prev, ...)
RunLoadPrev(r) ==
    /\ req[r].pc = "load_prev"
    /\ LET file == IF req[r].variant = "web" THEN Val(Locals(r).prev_bytes)
                   ELSE req[r].prev_file
           f    == load_csv_pages(req[r].variant, file, OptsOf(req[r]))
       IN  IF f.pc = "raised"
           THEN /\ req' = [req EXCEPT ![r] =
                             Fail(req[r],
                                  FailureStatus(req[r].variant, Val(f.err)),
                                  Val(f.err).detail)]
                /\ UNCHANGED frames
           ELSE /\ frames' = [frames EXCEPT ![FrameOf(r)].prev_pages = f.pages]
                /\ req' = [req EXCEPT ![r] =
                             Passed(req[r], "load_curr", "extracted_prev")]

\* curr_pages = load_csv_pages_from_bytes(curr_bytes) /
\* curr_pages = load_csv_pages_auto(args.curr, ...)
RunLoadCurr(r) ==
    /\ req[r].pc = "load_curr"
    /\ LET file == IF req[r].variant = "web" THEN Val(Locals(r).curr_bytes)
                   ELSE req[r].curr_file
           f    == load_csv_pages(req[r].variant, file, OptsOf(req[r]))
       IN  IF f.pc = "raised"
           THEN /\ req' = [req EXCEPT ![r] =
                             Fail(req[r],
                                  FailureStatus(req[r].variant, Val(f.err)),
                                  Val(f.err).detail)]
                /\ UNCHANGED frames
           ELSE /\ frames' = [frames EXCEPT ![FrameOf(r)].curr_pages = f.pages]
                /\ req' = [req EXCEPT ![r] =
                             Passed(req[r], "check", "extracted_curr")]

\* if not prev_pages and not curr_pages: raise HTTPException(400) / sys.exit(1)
RunCheck(r) ==
    /\ req[r].pc = "check"
    /\ req' = [req EXCEPT ![r] =
                 IF BothEmpty(Locals(r).prev_pages, Locals(r).curr_pages)
                 THEN Fail(req[r], IF req[r].variant = "web" THEN 400 ELSE 1,
                           "empty")
                 ELSE Passed(req[r], "merge", "rows_found")]
    /\ UNCHANGED frames

\* merged = merge_months(prev_pages, curr_pages, blog_paths=blog_path_list)
RunMerge(r) ==
    /\ req[r].pc = "merge"
    /\ frames' = [frames EXCEPT ![FrameOf(r)].merged =
                    Some(merge_months(Locals(r).prev_pages, Locals(r).curr_pages,
                                      Some(BlogPathList(req[r].blog_paths))))]
    /\ req' = [req EXCEPT ![r] = Passed(req[r], "call", "merged")]

\* report_text = generate_report_with_openai(report_input, ...): the service
\* answers or the call raises; an exception nobody catches ends the request
\* with status 500 and the tool with exit status 1
RunCall(r) ==
    /\ req[r].pc = "call"
    /\ \E answered \in BOOLEAN :
          LET m == Val(Locals(r).merged)
              q == [req[r] EXCEPT
                       !.calls = @ + 1,
                       !.sent = Some([pages |-> m.pages, summary |-> m.summary]),
                       !.events = Append(@, "service_called")]
          IN  req' = [req EXCEPT ![r] =
                        IF answered
                        THEN [q EXCEPT !.pc = IF q.variant = "web" THEN "respond"
                                              ELSE "write"]
                        ELSE Fail(q, IF q.variant = "web" THEN 500 ELSE 1,
                                  "service")]
    /\ UNCHANGED frames

\* return ReportResponse(report=..., summary=merged["summary"])
RunRespond(r) ==
    /\ req[r].pc = "respond"
    /\ req' = [req EXCEPT ![r].pc = "done",
                          ![r].status = Some(200),
                          ![r].report = Some("report_text"),
                          ![r].summary = Some(Val(Locals(r).merged).summary)]
    /\ UNCHANGED frames

\* with open(filename, "w") as f: f.write(report_text); print(report_text)
RunWrite(r) ==
    /\ req[r].pc = "write"
    /\ req' = [req EXCEPT ![r].pc = "done",
                          ![r].status = Some(0),
                          ![r].report = Some("report_text"),
                          ![r].file_written = TRUE]
    /\ UNCHANGED frames

\* uploaded / named files
Scenario_prev ==
    [header |-> Header_std, rows |-> <<Row_blog_a_1000, Row_about_500>>,
     bad |-> Bytes_ascii]
Scenario_curr ==
    [header |-> Header_std, rows |-> <<Row_blog_a_1500, Row_contact_10>>,
     bad |-> Bytes_ascii]
File_header_only ==
    [header |-> Header_std, rows |-> <<>>, bad |-> Bytes_ascii]
File_all_dropped ==
    [header |-> Header_std, rows |-> <<Row_dash, Row_no_traffic>>,
     bad |-> Bytes_ascii]
File_zero_bytes ==
    [header |-> <<>>, rows |-> <<>>, bad |-> Bytes_ascii]
File_no_columns ==
    [header |-> Header_link_hits, rows |-> <<Row_contact_10>>,
     bad |-> Bytes_ascii]
File_binary ==
    [header |-> Header_std, rows |-> <<Row_contact_10>>, bad |-> Bytes_binary]
File_cp932_late ==
    [header |-> Header_std, rows |-> <<Row_about_500, Row_contact_10>>,
     bad |-> Bytes_cp932_late]
File_negative ==
    [header |-> Header_std, rows |-> <<Row_negative>>, bad |-> Bytes_ascii]

RunFiles ==
    {Scenario_prev, Scenario_curr, File_header_only, File_all_dropped,
     File_zero_bytes, File_no_columns, File_binary, File_cp932_late,
     File_negative}

\* values of the blog_paths form field / --blog-paths option
Paths_default == <<"/","b","l","o","g",",","/","c","o","l","u","m","n">>
Paths_blog    == <<"/","b","l","o","g">>
Paths_blank   == <<>>

PathsPool ==
    {Paths_default, Paths_blog, Paths_blank,
     <<" ","/","b","l","o","g"," ",","," ",",","/","c","o","l","u","m","n">>}

\* one request, any inputs: a web request or a command line run
InitRun ==
    /\ \E q \in
          {NewRequest("web", st, t, k, f1, f2, AutoCols, ps) :
              st \in BOOLEAN, t \in {"ok", "bad", "absent"}, k \in BOOLEAN,
              f1 \in RunFiles, f2 \in RunFiles, ps \in PathsPool}
          \cup
          {NewRequest("cli", TRUE, "ok", k, f1, f2, o, ps) :
              k \in BOOLEAN, f1 \in RunFiles, f2 \in RunFiles,
              o \in {AutoCols, LinkHitsCols}, ps \in PathsPool} :
          req = <<q>>
    /\ frames = <<NewLocals>>
    /\ InitMerge /\ InitGuessIdle /\ InitLoadIdle

\* the inputs of requests that run side by side
ConcRequests ==
    {NewRequest("web", TRUE, "ok", TRUE, Scenario_prev, Scenario_curr,
                AutoCols, Paths_blog),
     NewRequest("web", TRUE, "ok", TRUE, File_header_only, Scenario_curr,
                AutoCols, Paths_default),
     NewRequest("web", TRUE, "ok", TRUE, File_all_dropped, File_header_only,
                AutoCols, Paths_default),
     NewRequest("web", TRUE, "ok", TRUE, Scenario_prev, File_no_columns,
                AutoCols, Paths_default),
     NewRequest("web", TRUE, "bad", TRUE, Scenario_prev, Scenario_curr,
                AutoCols, Paths_default),
     NewRequest("web", TRUE, "ok", FALSE, Scenario_prev, Scenario_curr,
                AutoCols, Paths_default),
     NewRequest("cli", TRUE, "ok", TRUE, Scenario_curr, Scenario_prev,
                AutoCols, Paths_blank),
     NewRequest("cli", TRUE, "ok", TRUE, File_negative, File_cp932_late,
                AutoCols, Paths_default)}

\* two requests in progress at the same time
InitConc ==
    /\ \E q1 \in ConcRequests, q2 \in ConcRequests : req = <<q1, q2>>
    /\ frames = <<NewLocals, NewLocals>>
    /\ InitMerge /\ InitGuessIdle /\ InitLoadIdle

NextRun ==
    \/ \E r \in DOMAIN req : RunAuth(r) /\ UNCHANGED <<mergeVars, guessVars, load>>
    \/ \E r \in DOMAIN req : RunKey(r) /\ UNCHANGED <<mergeVars, guessVars, load>>
    \/ \E r \in DOMAIN req : RunReadPrev(r) /\ UNCHANGED <<mergeVars, guessVars, load>>
    \/ \E r \in DOMAIN req : RunReadCurr(r) /\ UNCHANGED <<mergeVars, guessVars, load>>
    \/ \E r \in DOMAIN req : RunLoadPrev(r) /\ UNCHANGED <<mergeVars, guessVars, load>>
    \/ \E r \in DOMAIN req : RunLoadCurr(r) /\ UNCHANGED <<mergeVars, guessVars, load>>
    \/ \E r \in DOMAIN req : RunCheck(r) /\ UNCHANGED <<mergeVars, guessVars, load>>
    \/ \E r \in DOMAIN req : RunMerge(r) /\ UNCHANGED <<mergeVars, guessVars, load>>
    \/ \E r \in DOMAIN req : RunCall(r) /\ UNCHANGED <<mergeVars, guessVars, load>>
    \/ \E r \in DOMAIN req : RunRespond(r) /\ UNCHANGED <<mergeVars, guessVars, load>>
    \/ \E r \in DOMAIN req : RunWrite(r) /\ UNCHANGED <<mergeVars, guessVars, load>>

SpecRun == InitRun /\ [][NextRun]_vars

SpecConc == InitConc /\ [][NextRun]_vars

----------------------------------------------------------------------------
(* Properties of merge_months and summarize_pages *)

Done == pc = "done"
Result == Val(merged)
Pages == Result.pages
Summary == Result.summary

UrlsOf(recs) == {recs[i].url : i \in 1..Len(recs)}
InputUrls == UrlsOf(prev_pages) \cup UrlsOf(curr_pages)

\* a = b for exact ratios num/den
RatEq(a, b) == a.num * b.den = b.num * a.den

\* the ratio o is present and equals (current - prev) / prev * 100
IsPercentChange(o, prev, current) ==
    /\ ~IsNone(o)
    /\ RatEq(Val(o), [num |-> (current - prev) * 100, den |-> prev])

\* sum of Value(pages[i]) over the index set I
RECURSIVE SumOver(_, _, _)
SumOver(pages, I, field) ==
    IF I = {} THEN 0
    ELSE LET i == CHOOSE k \in I : TRUE
         IN  (IF field = "prev" THEN pages[i].prev_traffic
              ELSE pages[i].current_traffic)
             + SumOver(pages, I \ {i}, field)

\* C1: merge_months returns exactly one MergedPage per distinct URL: the set
\* of output URLs is the union of the URLs of prev and curr, and no URL
\* appears twice in the output.
C1_OnePagePerUrl ==
    Done =>
        /\ {Pages[i].url : i \in 1..Len(Pages)} = InputUrls
        /\ \A i, j \in 1..Len(Pages) : i /= j => Pages[i].url /= Pages[j].url

\* C1 witness: a URL repeated inside prev and a URL present in both periods
C1_Witness ==
    /\ Done
    /\ \E i, j \in 1..Len(prev_pages) :
          i < j /\ prev_pages[i].url = prev_pages[j].url
    /\ UrlsOf(prev_pages) \cap UrlsOf(curr_pages) /= {}

NoRepeat(recs) ==
    \A i, j \in 1..Len(recs) : i /= j => recs[i].url /= recs[j].url

DisjointInputs ==
    /\ UrlsOf(prev_pages) \cap UrlsOf(curr_pages) = {}
    /\ NoRepeat(prev_pages)
    /\ NoRepeat(curr_pages)

C3_DisjointDefaults ==
    Done =>
        /\ \A i \in 1..Len(Pages) :
              Pages[i].diff = Pages[i].current_traffic - Pages[i].prev_traffic
        /\ DisjointInputs =>
              /\ Len(Pages) = Len(prev_pages) + Len(curr_pages)
              /\ \A i \in 1..Len(Pages) :
                    /\ Pages[i].url \in UrlsOf(prev_pages) =>
                          /\ Pages[i].current_traffic = 0
                          /\ IsNone(Pages[i].top_keyword_current)
                    /\ Pages[i].url \in UrlsOf(curr_pages) =>
                          /\ Pages[i].prev_traffic = 0
                          /\ IsNone(Pages[i].top_keyword_prev)

\* C3 witness: disjoint inputs, both periods non-empty, with keywords and
\* non-zero traffic on both sides
C3_Witness ==
    /\ Done
    /\ DisjointInputs
    /\ \E i \in 1..Len(prev_pages) :
          prev_pages[i].traffic /= 0 /\ ~IsNone(prev_pages[i].top_keyword)
    /\ \E i \in 1..Len(curr_pages) :
          curr_pages[i].traffic /= 0 /\ ~IsNone(curr_pages[i].top_keyword)

\* C4: summarize_pages returns the sum of prev_traffic, the sum of
\* current_traffic, their difference, the ratio computed from these summed
\* totals, and the length of its input; for the empty sequence all totals
\* are zero, the ratio is absent and page_count is 0.
IsAggregateOf(s, pages) ==
    /\ s.total_traffic_prev = SumOver(pages, 1..Len(pages), "prev")
    /\ s.total_traffic_current = SumOver(pages, 1..Len(pages), "current")
    /\ s.total_diff = s.total_traffic_current - s.total_traffic_prev
    /\ s.page_count = Len(pages)
    /\ s.total_traffic_prev > 0 =>
          IsPercentChange(s.total_diff_ratio,
                          s.total_traffic_prev, s.total_traffic_current)
    /\ s.total_traffic_prev = 0 => IsNone(s.total_diff_ratio)
    /\ ~IsNone(s.total_diff_ratio) =>
          IsPercentChange(s.total_diff_ratio,
                          s.total_traffic_prev, s.total_traffic_current)
    /\ Len(pages) = 0 =>
          s = [total_traffic_prev |-> 0, total_traffic_current |-> 0,
               total_diff |-> 0, total_diff_ratio |-> None, page_count |-> 0]

C4_SummarizePages ==
    Done =>
        /\ IsAggregateOf(Summary.all, Pages)
        /\ IsAggregateOf(Summary.blog_only, BlogOnly(Pages))

\* C4 witness: several pages whose total ratio is present while one page has
\* no ratio of its own, and an empty blog subset
C4_Witness ==
    /\ Done
    /\ Len(Pages) >= 2
    /\ ~IsNone(Summary.all.total_diff_ratio)
    /\ \E i \in 1..Len(Pages) : IsNone(Pages[i].diff_ratio)
    /\ Summary.blog_only.page_count = 0

\* C5: summary.all is the aggregate over all returned pages and
\* summary.blog_only is the aggregate over exactly the returned pages whose
\* is_blog is true.
BlogIndexes == {i \in 1..Len(Pages) : Pages[i].is_blog}

C5_SummaryScopes ==
    Done =>
        /\ Summary.all.page_count = Len(Pages)
        /\ Summary.all.total_traffic_prev = SumOver(Pages, 1..Len(Pages), "prev")
        /\ Summary.all.total_traffic_current =
              SumOver(Pages, 1..Len(Pages), "current")
        /\ Summary.blog_only.page_count = Cardinality(BlogIndexes)
        /\ Summary.blog_only.total_traffic_prev =
              SumOver(Pages, BlogIndexes, "prev")
        /\ Summary.blog_only.total_traffic_current =
              SumOver(Pages, BlogIndexes, "current")

\* C5 witness: blog and non-blog pages together, both with traffic
C5_Witness ==
    /\ Done
    /\ \E i, j \in 1..Len(Pages) :
          /\ Pages[i].is_blog /\ Pages[i].prev_traffic /= 0
          /\ ~Pages[j].is_blog /\ Pages[j].current_traffic /= 0

\* C6: is_blog is true iff at least one marker occurs in the URL as a
\* literal substring at any position; with an empty marker list every page
\* has is_blog = FALSE.
EffectiveMarkers ==
    IF IsNone(blog_paths) THEN DefaultBlogPaths ELSE Val(blog_paths)

OccursAt(url, marker, i) ==
    /\ i + Len(marker) - 1 <= Len(url)
    /\ SubSeq(url, i, i + Len(marker) - 1) = marker

C6_IsBlogIffSubstring ==
    Done =>
        \A i \in 1..Len(Pages) :
            Pages[i].is_blog <=>
                \E k \in 1..Len(EffectiveMarkers) :
                    \E at \in 1..(Len(Pages[i].url) + 1) :
                        OccursAt(Pages[i].url, EffectiveMarkers[k], at)

\* C6 witness: an explicit marker list, a page that is a blog page only
\* through a marker in the middle of its URL, and a page that is not
C6_Witness ==
    /\ Done
    /\ ~IsNone(blog_paths)
    /\ \E i, j \in 1..Len(Pages) :
          /\ Pages[i].is_blog
          /\ \A k \in 1..Len(EffectiveMarkers) :
                ~OccursAt(Pages[i].url, EffectiveMarkers[k], 1)
          /\ ~Pages[j].is_blog

\* C7: the pages are ordered by first appearance: the URLs of prev in the
\* order of their first occurrence in prev, then the URLs that occur only
\* in curr in the order of their first occurrence in curr.
FirstIndex(recs, url) ==
    CHOOSE i \in 1..Len(recs) :
        /\ recs[i].url = url
        /\ \A j \in 1..(i - 1) : recs[j].url /= url

AppearanceRank(url) ==
    IF url \in UrlsOf(prev_pages) THEN FirstIndex(prev_pages, url)
    ELSE Len(prev_pages) + FirstIndex(curr_pages, url)

C7_FirstAppearanceOrder ==
    Done =>
        \A i, j \in 1..Len(Pages) :
            i < j => AppearanceRank(Pages[i].url) < AppearanceRank(Pages[j].url)

\* C7 witness: curr lists a new URL before a URL that prev already has
C7_Witness ==
    /\ Done
    /\ \E i, j \in 1..Len(curr_pages) :
          /\ i < j
          /\ curr_pages[i].url \notin UrlsOf(prev_pages)
          /\ curr_pages[j].url \in UrlsOf(prev_pages)

----------------------------------------------------------------------------
(* Properties of guess_column *)

SameLetter(c1, c2) ==
    \/ c1 = c2
    \/ \E n \in 1..26 : {c1, c2} = {UpperLetters[n], LowerLetters[n]}

\* a and b are the same string up to letter case
EqualsIgnoreCase(a, b) ==
    /\ Len(a) = Len(b)
    /\ \A i \in 1..Len(a) : SameLetter(a[i], b[i])

\* token occurs somewhere in h, up to letter case
ContainsIgnoreCase(h, token) ==
    \E at \in 1..(Len(h) - Len(token) + 1) :
        \A j \in 1..Len(token) : SameLetter(h[at + j - 1], token[j])

IsExact(h, k) ==
    \E c \in 1..Len(Candidates(k)) : EqualsIgnoreCase(h, Candidates(k)[c])

HasToken(h, k) ==
    \E t \in 1..Len(Tokens(k)) : ContainsIgnoreCase(h, Tokens(k)[t])

\* positions of the headers that match in the exact pass / the substring pass
ExactIdx(hs, k) == {i \in 1..Len(hs) : IsExact(hs[i], k)}
TokenIdx(hs, k) == {i \in 1..Len(hs) : HasToken(hs[i], k)}

Min(S) == CHOOSE x \in S : \A y \in S : x <= y
Max(S) == CHOOSE x \in S : \A y \in S : x >= y

\* C8: column inference is order-independent: guess_column applied to any
\* permutation of the header list selects the same header as for the
\* original list.
C8_OrderIndependent ==
    gpc = "shuffled" => reguessed = guessed

\* C8 (amended): guess_column selects the same header for every permutation
\* of the header list provided that no two different headers that match in
\* the exact pass are equal up to letter case and, when no header matches
\* in the exact pass, all headers containing a token are the same header.
OrderCannotMatter(hs, k) ==
    /\ \A i, j \in ExactIdx(hs, k) :
          EqualsIgnoreCase(hs[i], hs[j]) => hs[i] = hs[j]
    /\ ExactIdx(hs, k) = {} =>
          \A i, j \in TokenIdx(hs, k) : hs[i] = hs[j]

C8_OrderIndependentWithoutTies ==
    (gpc = "shuffled" /\ kind \in KnownKinds /\ OrderCannotMatter(headers, kind))
        => reguessed = guessed

\* C8 witness: two headers match different candidates, a third matches only
\* by substring, and the columns are really reordered
C8_Witness ==
    /\ gpc = "shuffled"
    /\ kind \in KnownKinds
    /\ OrderCannotMatter(headers, kind)
    /\ shuffled /= headers
    /\ Cardinality(ExactIdx(headers, kind)) >= 2
    /\ TokenIdx(headers, kind) \ ExactIdx(headers, kind) /= {}
    /\ ~IsNone(guessed)

\* C9: at each of the two passes the tie-break is the original column
\* order: of several headers matching in the exact pass the earliest is
\* returned, and of several headers matching in the substring pass the
\* earliest is returned.
C9_FirstHeaderWinsEachPass ==
    (gpc /= "start" /\ kind \in KnownKinds) =>
        /\ ExactIdx(headers, kind) /= {} =>
              guessed = Some(headers[Min(ExactIdx(headers, kind))])
        /\ (ExactIdx(headers, kind) = {} /\ TokenIdx(headers, kind) /= {}) =>
              guessed = Some(headers[Min(TokenIdx(headers, kind))])

\* C9 (amended): in the exact pass the tie-break is the order of the
\* candidate list: the header matching the earliest matched candidate is
\* returned (the last such header when several are equal up to letter
\* case); in the substring pass the earliest matching header is returned.
MatchedCandidates(hs, k) ==
    {c \in 1..Len(Candidates(k)) :
        \E i \in 1..Len(hs) : EqualsIgnoreCase(hs[i], Candidates(k)[c])}

HeadersOfCandidate(hs, k, c) ==
    {i \in 1..Len(hs) : EqualsIgnoreCase(hs[i], Candidates(k)[c])}

C9_CandidateOrderThenHeaderOrder ==
    (gpc /= "start" /\ kind \in KnownKinds) =>
        /\ ExactIdx(headers, kind) /= {} =>
              guessed =
                Some(headers[Max(HeadersOfCandidate(headers, kind,
                                   Min(MatchedCandidates(headers, kind))))])
        /\ (ExactIdx(headers, kind) = {} /\ TokenIdx(headers, kind) /= {}) =>
              guessed = Some(headers[Min(TokenIdx(headers, kind))])

\* C9 witness: several headers match in the exact pass and the returned one
\* is not the earliest of them
C9_Witness ==
    /\ gpc = "guessed"
    /\ kind \in KnownKinds
    /\ Cardinality(MatchedCandidates(headers, kind)) >= 2
    /\ guessed /= Some(headers[Min(ExactIdx(headers, kind))])

\* C10: the exact pass has priority: if any header equals a candidate up to
\* letter case, the returned header is one that matches a candidate exactly,
\* even when an earlier header matches only by substring; otherwise the
\* first header containing a token is returned; the result is absent iff no
\* header matches in either pass, and for an unknown kind.
C10_ExactPassHasPriority ==
    gpc /= "start" =>
        IF kind \notin KnownKinds THEN IsNone(guessed)
        ELSE /\ ExactIdx(headers, kind) /= {} =>
                   /\ ~IsNone(guessed)
                   /\ IsExact(Val(guessed), kind)
                   /\ \E i \in 1..Len(headers) : headers[i] = Val(guessed)
             /\ (ExactIdx(headers, kind) = {} /\ TokenIdx(headers, kind) /= {}) =>
                   guessed = Some(headers[Min(TokenIdx(headers, kind))])
             /\ IsNone(guessed) <=>
                   (ExactIdx(headers, kind) = {} /\ TokenIdx(headers, kind) = {})

\* C10 witness: a header matching only by substring stands before a header
\* that matches exactly, and the latter is returned
C10_Witness ==
    /\ gpc = "guessed"
    /\ kind \in KnownKinds
    /\ \E i, j \in 1..Len(headers) :
          /\ i < j
          /\ HasToken(headers[i], kind) /\ ~IsExact(headers[i], kind)
          /\ IsExact(headers[j], kind)
          /\ guessed = Some(headers[j])

----------------------------------------------------------------------------
(* Properties of CSV ingestion *)

\* the call has resolved its three columns
Resolved ==
    ~Falsy(Frame.cols.url) /\ ~Falsy(Frame.cols.traffic) /\ ~Falsy(Frame.cols.keyword)

\* the field a data row has in the resolved column of a kind
UrlSome(row)     == RowGet(Frame.file.header, row, Frame.cols.url)
TrafficSome(row) == RowGet(Frame.file.header, row, Frame.cols.traffic)
KeywordSome(row) == RowGet(Frame.file.header, row, Frame.cols.keyword)

\* the text without its commas and without surrounding white space
CleanedText(s) ==
    LET kept == SelectSeq(s, LAMBDA c : c /= ",")
        ink  == {i \in 1..Len(kept) : kept[i] \notin {" ", "\t"}}
    IN  IF ink = {} THEN <<>> ELSE SubSeq(kept, Min(ink), Max(ink))

\* the text is a number: an optional sign followed by digits
IsNumberText(t) ==
    LET body == IF t /= <<>> /\ t[1] \in {"+", "-"} THEN SubSeq(t, 2, Len(t)) ELSE t
    IN  /\ body /= <<>>
        /\ \A i \in 1..Len(body) : \E d \in 1..10 : DigitChars[d] = body[i]

\* the row has a non-empty URL and a traffic text that, cleaned, is non-empty
\* and parses as a number
IsUsableRow(row) ==
    /\ ~IsNone(UrlSome(row)) /\ Val(UrlSome(row)) /= <<>>
    /\ ~IsNone(TrafficSome(row))
    /\ CleanedText(Val(TrafficSome(row))) /= <<>>
    /\ IsNumberText(CleanedText(Val(TrafficSome(row))))

RecordOfRow(row) ==
    [url |-> Val(UrlSome(row)),
     traffic |-> Val(ParseFloat(CleanedText(Val(TrafficSome(row))))),
     top_keyword |-> KeywordSome(row)]

\* the records of the usable rows among the first n, in row order
RECURSIVE RecordsOfRows(_, _)
RecordsOfRows(rows, n) ==
    IF n = 0 THEN <<>>
    ELSE IF IsUsableRow(rows[n])
         THEN Append(RecordsOfRows(rows, n - 1), RecordOfRow(rows[n]))
         ELSE RecordsOfRows(rows, n - 1)

\* C11: once the three columns are resolved, a PageRecord is emitted for a
\* data row iff its URL is non-empty and its traffic text, with commas and
\* surrounding white space removed, is non-empty and parses as a number;
\* every other row is dropped without an error and the rows after it are
\* still processed, in file order.  The only error after column resolution
\* is a codec error of the file iterator, never one caused by a row's content.
C11_UsableRowsOnly ==
    Resolved =>
        /\ Frame.pages = RecordsOfRows(Frame.file.rows, Frame.pos)
        /\ Frame.pc = "returned" => Frame.pos = Len(Frame.file.rows)
        /\ Frame.pc = "raised" =>
              /\ Val(Frame.err).detail = "codec"
              /\ Frame.file.bad[Val(Frame.enc)] = "late"

\* C11 witness: the call returned, a dropped row stands before an emitted
\* one and an emitted row had commas or blanks in its traffic text
C11_Witness ==
    /\ Frame.pc = "returned"
    /\ Frame.pages /= <<>>
    /\ \E i, j \in 1..Len(Frame.file.rows) :
          /\ i < j
          /\ ~IsUsableRow(Frame.file.rows[i])
          /\ IsUsableRow(Frame.file.rows[j])
          /\ Val(TrafficSome(Frame.file.rows[j]))
                /= CleanedText(Val(TrafficSome(Frame.file.rows[j])))

\* C12: every PageRecord emitted by the row extractor has traffic >= 0.
C12_TrafficNonNegative ==
    \A i \in 1..Len(Frame.pages) : Frame.pages[i].traffic >= 0

\* a kind is unresolved: no column name was given for it and no header
\* matches it in either pass
UnresolvedKinds ==
    {k \in KnownKinds :
        /\ Falsy(Frame.opts[k])
        /\ ExactIdx(Frame.file.header, k) = {}
        /\ TokenIdx(Frame.file.header, k) = {}}

IsMissingColumnError ==
    /\ Frame.pc = "raised"
    /\ Val(Frame.err).detail = "missing_columns"

\* C13: when a required column is unresolved, the call fails with the
\* missing-column error before any data row is read; the error names exactly
\* the unresolved kinds, once each, together with the full header list; the
\* error is raised only when a kind is unresolved.
C13_MissingColumnsBeforeRows ==
    /\ (Frame.pc \notin {"decode", "header"} /\ ~IsNone(Frame.enc)
          /\ UnresolvedKinds /= {}) => IsMissingColumnError
    /\ IsMissingColumnError =>
          /\ UnresolvedKinds /= {}
          /\ {Val(Frame.err).missing[i] : i \in 1..Len(Val(Frame.err).missing)}
                = UnresolvedKinds
          /\ Len(Val(Frame.err).missing) = Cardinality(UnresolvedKinds)
          /\ Val(Frame.err).headers = Frame.file.header
          /\ Frame.pos = 0
          /\ Frame.pages = <<>>

\* C13 witness: a file with usable rows whose header resolves one kind only,
\* so the error lists the two others
C13_Witness ==
    /\ IsMissingColumnError
    /\ Cardinality(UnresolvedKinds) = 2
    /\ Frame.file.rows /= <<>>
    /\ Frame.opts = AutoCols

\* the candidates that decode the whole file, by position in the priority list
FullDecoders ==
    {i \in 1..Len(EncodingList(Frame.variant)) :
        Frame.file.bad[EncodingList(Frame.variant)[i]] = "none"}

\* C15: the text used for row extraction is the result of the first
\* candidate, in the fixed priority order, that decodes the entire file; when
\* no candidate does, the call fails with the encoding error; no decode error
\* occurs while rows are scanned.
C15_FirstWholeFileDecoding ==
    Frame.pc /= "decode" =>
        /\ FullDecoders /= {} =>
              /\ Frame.enc = Some(EncodingList(Frame.variant)[Min(FullDecoders)])
              /\ IsNone(Frame.err) \/ Val(Frame.err).detail = "missing_columns"
        /\ FullDecoders = {} =>
              /\ Frame.pc = "raised"
              /\ Val(Frame.err).detail = "encoding"

----------------------------------------------------------------------------
(* Repeated URLs inside one period *)

\* sum of the traffic of all records
RECURSIVE SumTraffic(_)
SumTraffic(recs) ==
    IF recs = <<>> THEN 0 ELSE Head(recs).traffic + SumTraffic(Tail(recs))

\* the distinct URLs of the first n records, in the order of first appearance
RECURSIVE FirstAppearances(_, _)
FirstAppearances(recs, n) ==
    IF n = 0 THEN <<>>
    ELSE LET d == FirstAppearances(recs, n - 1)
         IN  IF \E i \in 1..Len(d) : d[i] = recs[n].url THEN d
             ELSE Append(d, recs[n].url)

\* C20: when a URL occurs in several rows of one period, the page carries
\* the traffic and the keyword of the last such row of that period (earlier
\* rows are overwritten, nothing is summed), and the page stands at the
\* position of the URL's first appearance in prev followed by curr.  The
\* totals of summary.all can therefore be smaller than the sums over all
\* input records (the witness is such a run).
C20_LastRowWins ==
    Done =>
        /\ \A k \in 1..Len(Pages) :
              /\ \A i \in 1..Len(prev_pages) :
                    (prev_pages[i].url = Pages[k].url
                       /\ \A j \in (i + 1)..Len(prev_pages) :
                             prev_pages[j].url /= Pages[k].url) =>
                        /\ Pages[k].prev_traffic = prev_pages[i].traffic
                        /\ Pages[k].top_keyword_prev = prev_pages[i].top_keyword
              /\ \A i \in 1..Len(curr_pages) :
                    (curr_pages[i].url = Pages[k].url
                       /\ \A j \in (i + 1)..Len(curr_pages) :
                             curr_pages[j].url /= Pages[k].url) =>
                        /\ Pages[k].current_traffic = curr_pages[i].traffic
                        /\ Pages[k].top_keyword_current = curr_pages[i].top_keyword
        /\ [k \in 1..Len(Pages) |-> Pages[k].url]
              = FirstAppearances(prev_pages \o curr_pages,
                                 Len(prev_pages) + Len(curr_pages))

\* C20 witness: a URL is repeated in prev with another URL between the two
\* rows; its page is the first one and carries the later row's keyword, and
\* the previous-period total is smaller than the sum over the input records
C20_Witness ==
    /\ Done
    /\ \E i, m, j \in 1..Len(prev_pages) :
          /\ i < m /\ m < j
          /\ prev_pages[i].url = prev_pages[j].url
          /\ prev_pages[m].url /= prev_pages[i].url
          /\ prev_pages[i].traffic > 0
          /\ prev_pages[i].top_keyword /= prev_pages[j].top_keyword
          /\ Pages[1].url = prev_pages[j].url
          /\ Pages[1].top_keyword_prev = prev_pages[j].top_keyword
    /\ Summary.all.total_traffic_prev < SumTraffic(prev_pages)

----------------------------------------------------------------------------
(* Properties of a whole request / run *)

\* what the loader gives for each file of a request when nothing else runs
AlonePrev(q) == load_csv_pages(q.variant, q.prev_file, OptsOf(q))
AloneCurr(q) == load_csv_pages(q.variant, q.curr_file, OptsOf(q))

\* the run gets past the token check and the API-key check
Admitted(q) ==
    /\ q.variant = "web" => (q.server_token /\ q.token = "ok")
    /\ q.api_key

\* the error the run's ingestion ends with, None when it ends with none
IngestionError(q) ==
    IF AlonePrev(q).pc = "raised" THEN Some(Val(AlonePrev(q).err).detail)
    ELSE IF AloneCurr(q).pc = "raised" THEN Some(Val(AloneCurr(q).err).detail)
    ELSE IF AlonePrev(q).pages = <<>> /\ AloneCurr(q).pages = <<>>
         THEN Some("empty")
         ELSE None

\* the error a run executed alone ends with before it reaches the service
AloneError(q) ==
    IF q.variant = "web" /\ ~q.server_token THEN Some("token_unset")
    ELSE IF q.variant = "web" /\ q.token /= "ok" THEN Some("unauthorized")
    ELSE IF ~q.api_key THEN Some("key_unset")
    ELSE IngestionError(q)

\* pages and summary a run executed alone hands to the service
AloneMerged(q) ==
    merge_months(AlonePrev(q).pages, AloneCurr(q).pages,
                 Some(BlogPathList(q.blog_paths)))

Finished(r) == req[r].pc = "done"

\* C14: the run fails with the empty-dataset error iff both extractions
\* completed and both yielded zero usable rows; when exactly one side yielded
\* none, no error is raised for it and the merge proceeds, the empty side
\* contributing no page: every page has that period's traffic 0 and its
\* keyword absent, and the page URLs are those of the other side.
C14_EmptyDatasetIffBothEmpty ==
    \A r \in DOMAIN req :
        LET q == req[r]
            extracted == \E e \in 1..Len(q.events) : q.events[e] = "extracted_curr"
            prev == Locals(r).prev_pages
            curr == Locals(r).curr_pages
        IN  Finished(r) =>
              /\ q.detail = Some("empty") <=>
                    (extracted /\ prev = <<>> /\ curr = <<>>)
              /\ (extracted /\ (prev = <<>>) /= (curr = <<>>)) =>
                    /\ q.detail \in {None, Some("service")}
                    /\ ~IsNone(q.sent)
                    /\ UrlsOf(Val(q.sent).pages) = UrlsOf(prev) \cup UrlsOf(curr)
                    /\ \A i \in 1..Len(Val(q.sent).pages) :
                          LET pg == Val(q.sent).pages[i]
                          IN  /\ prev = <<>> =>
                                    /\ pg.prev_traffic = 0
                                    /\ IsNone(pg.top_keyword_prev)
                              /\ curr = <<>> =>
                                    /\ pg.current_traffic = 0
                                    /\ IsNone(pg.top_keyword_current)

\* C14 witness: the previous file has rows but none is usable, the current
\* file has usable rows, and the request is answered with a report
C14_Witness ==
    /\ Finished(1)
    /\ req[1].prev_file.rows /= <<>>
    /\ Locals(1).prev_pages = <<>>
    /\ Locals(1).curr_pages /= <<>>
    /\ req[1].status = Some(200)
    /\ ~IsNone(req[1].summary)

IngestionErrorKinds == {"encoding", "codec", "missing_columns", "empty"}

\* C16: a run whose ingestion raises the encoding, missing-column or
\* empty-dataset error ends with status 400 (web) or exit status 1 (command
\* line) and a message naming the error; no report text, no summary and no
\* report file is produced and the service is not called.
C16_IngestionErrorsAre4xx ==
    \A r \in DOMAIN req :
        LET q == req[r]
        IN  (Finished(r) /\ Admitted(q) /\ ~IsNone(IngestionError(q))) =>
              /\ Val(IngestionError(q)) \in IngestionErrorKinds
              /\ q.status = Some(IF q.variant = "web" THEN 400 ELSE 1)
              /\ q.detail = IngestionError(q)
              /\ IsNone(q.report)
              /\ IsNone(q.summary)
              /\ ~q.file_written
              /\ IsNone(q.sent)
              /\ q.calls = 0

\* C16 witness: the first file was extracted with usable rows, the second
\* cannot be decoded, and the request is answered 400
C16_Witness ==
    /\ Finished(1)
    /\ req[1].variant = "web"
    /\ Locals(1).prev_pages /= <<>>
    /\ req[1].detail = Some("encoding")
    /\ req[1].status = Some(400)

IsScenario(q) ==
    /\ q.prev_file = Scenario_prev
    /\ q.curr_file = Scenario_curr
    /\ BlogPathList(q.blog_paths) = <<Marker_blog>>
    /\ OptsOf(q) = AutoCols

PageOf(pages, url) == pages[CHOOSE i \in 1..Len(pages) : pages[i].url = url]

IsRatio(o, n) == ~IsNone(o) /\ RatEq(Val(o), [num |-> n, den |-> 1])

\* C17: previous rows (/blog/a, "1,000", kw1), (/about, "500"), current rows
\* (/blog/a, "1500"), (/contact, "10"), markers {"/blog"}: an admitted run
\* reaches the service with exactly 3 pages; /blog/a has diff 500, ratio 50
\* and is a blog page; /about has current_traffic 0, diff -500, ratio -100
\* and is no blog page; /contact has prev_traffic 0 and no ratio;
\* summary.all.total_traffic_prev = 1500 and summary.blog_only.page_count = 1.
C17_Scenario ==
    \A r \in DOMAIN req :
        LET q == req[r]
        IN  (Finished(r) /\ Admitted(q) /\ IsScenario(q)) =>
              /\ ~IsNone(q.sent)
              /\ LET P == Val(q.sent).pages
                     S == Val(q.sent).summary
                 IN  /\ Len(P) = 3
                     /\ UrlsOf(P) = {Url_blog_a, Url_about, Url_contact}
                     /\ PageOf(P, Url_blog_a).diff = 500
                     /\ IsRatio(PageOf(P, Url_blog_a).diff_ratio, 50)
                     /\ PageOf(P, Url_blog_a).is_blog
                     /\ PageOf(P, Url_about).current_traffic = 0
                     /\ PageOf(P, Url_about).diff = 0 - 500
                     /\ IsRatio(PageOf(P, Url_about).diff_ratio, 0 - 100)
                     /\ ~PageOf(P, Url_about).is_blog
                     /\ PageOf(P, Url_contact).prev_traffic = 0
                     /\ IsNone(PageOf(P, Url_contact).diff_ratio)
                     /\ S.all.total_traffic_prev = 1500
                     /\ S.blog_only.page_count = 1

\* C17 witness: the scenario request was answered with a report
C17_Witness ==
    /\ Finished(1)
    /\ IsScenario(req[1])
    /\ req[1].variant = "web"
    /\ req[1].status = Some(200)
    /\ req[1].summary = Some(Val(req[1].sent).summary)

\* C18: with two runs in progress at the same time, under every
\* interleaving of their steps, a finished run has the result (the error, or
\* the pages and the summary) of the same run executed alone on its inputs,
\* and the two runs keep their data in different places.
C18_RunsAreIsolated ==
    /\ \A r \in DOMAIN req :
          LET q == req[r]
          IN  Finished(r) =>
                IF ~IsNone(AloneError(q))
                THEN /\ q.detail = AloneError(q)
                     /\ IsNone(q.sent)
                     /\ IsNone(q.summary)
                ELSE /\ q.detail \in {None, Some("service")}
                     /\ q.sent = Some([pages   |-> AloneMerged(q).pages,
                                       summary |-> AloneMerged(q).summary])
                     /\ IsNone(q.detail) <=> ~IsNone(q.report)
                     /\ (q.variant = "web" /\ IsNone(q.detail)) =>
                           q.summary = Some(AloneMerged(q).summary)
    /\ \A r1, r2 \in DOMAIN req : r1 /= r2 => FrameOf(r1) /= FrameOf(r2)

\* C18 witness: two requests with different files are both past ingestion,
\* one has finished with a report while the other is still to call the
\* service, and their merged results differ
C18_Witness ==
    /\ Len(req) = 2
    /\ Finished(1)
    /\ req[1].status = Some(200)
    /\ req[2].pc = "call"
    /\ req[2].prev_file /= req[1].prev_file
    /\ Locals(2).merged /= Locals(1).merged

ServiceEvents ==
    <<"token_accepted", "key_found", "extracted_prev", "extracted_curr",
      "rows_found", "merged", "service_called">>

\* C19: in the web backend the service is called at most once per request,
\* and a call comes after, in this order, the token was accepted, the API
\* key was found, both files were extracted without error, at least one of
\* them yielded a usable row, and merge_months produced the pages and the
\* summary, which are what the call sends; a request that ends in 401, 400
\* or 500 before that point never calls the service.
C19_ServiceCalledOnceAfterMerge ==
    \A r \in DOMAIN req :
        LET q == req[r]
        IN  q.variant = "web" =>
              /\ q.calls <= 1
              /\ q.calls = 1 =>
                    /\ q.events = ServiceEvents
                    /\ q.server_token /\ q.token = "ok" /\ q.api_key
                    /\ AlonePrev(q).pc = "returned"
                    /\ AloneCurr(q).pc = "returned"
                    /\ Locals(r).prev_pages /= <<>> \/ Locals(r).curr_pages /= <<>>
                    /\ ~IsNone(Locals(r).merged)
                    /\ q.sent = Some([pages   |-> Val(Locals(r).merged).pages,
                                      summary |-> Val(Locals(r).merged).summary])
              /\ (Finished(r) /\ q.status \in {Some(401), Some(400)}) =>
                    q.calls = 0
              /\ (Finished(r) /\ q.status = Some(500)
                    /\ q.detail /= Some("service")) => q.calls = 0
              /\ q.calls = 0 =>
                    \A e \in 1..Len(q.events) : q.events[e] /= "service_called"

\* C19 witness: a web request that called the service once and was answered
C19_Witness ==
    /\ Finished(1)
    /\ req[1].variant = "web"
    /\ req[1].calls = 1
    /\ req[1].status = Some(200)
    /\ Locals(1).prev_pages = <<>>

----------------------------------------------------------------------------
(* Explicit column names *)

InHeader(name) == \E i \in 1..Len(Frame.file.header) : Frame.file.header[i] = name

\* a column name was supplied for the kind
Supplied(k) == ~IsNone(Frame.opts[k]) /\ Val(Frame.opts[k]) /= <<>>

\* the URL or the traffic column was supplied and the header lacks it
SuppliedColumnAbsent ==
    \E k \in {"url", "traffic"} : Supplied(k) /\ ~InHeader(Val(Frame.opts[k]))

\* the call is over: it returned or it raised
Ended == Frame.pc \in {"returned", "raised"}

----------------------------------------------------------------------------
(* The three inferred columns of one header list *)

ResolvesAllKinds(hs) == \A k \in KnownKinds : ~IsNone(guess_column(hs, k))

\* C22: for the same header list, whenever guess_column resolves all three
\* kinds, the three selected headers are pairwise distinct.
C22_DistinctColumns ==
    (gpc /= "start" /\ kind \in KnownKinds /\ ResolvesAllKinds(headers)) =>
        \A k \in KnownKinds \ {kind} : guess_column(headers, k) /= guessed

----------------------------------------------------------------------------
(* merge_months on float traffic *)

\* Python floats are IEEE 754 binary64: 53 significant bits.  A float whose
\* value is an integer is kept in two limbs, hi * FloatBase + lo with
\* 0 <= lo < FloatBase, so that values beyond 2^53 and the rounding of their
\* sums are represented.
FloatBase == 134217728

\* hi of 2^53, the first float whose successor is more than 1 away
FloatExact == 67108864

\* the limbs of hi * FloatBase + lo, carried
Float(hi, lo) == [hi |-> hi + (lo \div FloatBase), lo |-> lo % FloatBase]

FloatNeg(x) == Float(-x.hi, -x.lo)

FloatLeq(x, y) == x.hi < y.hi \/ (x.hi = y.hi /\ x.lo <= y.lo)

\* round to nearest, ties to even, of an exact integer result
FloatRound(x) ==
    LET m    == IF x.hi < 0 THEN FloatNeg(x) ELSE x
        \* bits beyond the 53 that are kept
        k    == CHOOSE j \in 0..4 :
                    /\ m.hi < FloatExact * 2^j
                    /\ j > 0 => m.hi >= FloatExact * 2^(j - 1)
        step == 2^k
        r    == m.lo % step
        down == Float(m.hi, m.lo - r)
        up   == Float(m.hi, m.lo - r + step)
        near == IF 2 * r < step THEN down
                ELSE IF 2 * r > step THEN up
                ELSE IF (m.lo \div step) % 2 = 0 THEN down ELSE up
    IN  IF x.hi < 0 THEN FloatNeg(near) ELSE near

\* x + y
FloatAdd(x, y) == FloatRound(Float(x.hi + y.hi, x.lo + y.lo))

\* x - y
FloatSub(x, y) == FloatRound(Float(x.hi - y.hi, x.lo - y.lo))

\* float(x or 0.0)
FloatOrZero_f64(o) == IF IsNone(o) THEN Float(0, 0) ELSE Val(o)

\* sum(p[field] for p in pages): the additions run from the first page on
RECURSIVE Sum_f64(_, _, _)
Sum_f64(acc, pages, field) ==
    IF pages = <<>> THEN acc
    ELSE Sum_f64(FloatAdd(acc, Head(pages)[field]), Tail(pages), field)

\* (diff / base * 100.0) if base > 0 else None; the quotient is kept as its
\* two operands
Ratio_f64(diff, base) ==
    IF ~FloatLeq(base, Float(0, 0))
    THEN Some([diff |-> diff, base |-> base])
    ELSE None

summarize_pages_f64(pages) ==
    IF pages = <<>>
    THEN [total_traffic_prev    |-> Float(0, 0),
          total_traffic_current |-> Float(0, 0),
          total_diff            |-> Float(0, 0),
          total_diff_ratio      |-> None,
          page_count            |-> 0]
    ELSE LET total_prev    == Sum_f64(Float(0, 0), pages, "prev_traffic")
             total_current == Sum_f64(Float(0, 0), pages, "current_traffic")
             diff          == FloatSub(total_current, total_prev)
         IN  [total_traffic_prev    |-> total_prev,
              total_traffic_current |-> total_current,
              total_diff            |-> diff,
              total_diff_ratio      |-> Ratio_f64(diff, total_prev),
              page_count            |-> Len(pages)]

\* Variant: the difference is taken the other way round
MakePage_f64_reversed(entry, paths) ==
    LET prev_tr == FloatOrZero_f64(entry.data.prev_traffic)
        curr_tr == FloatOrZero_f64(entry.data.current_traffic)
        diff    == FloatSub(prev_tr, curr_tr)
    IN  [url                 |-> entry.key,
         prev_traffic        |-> prev_tr,
         current_traffic     |-> curr_tr,
         diff                |-> diff,
         diff_ratio          |-> Ratio_f64(diff, prev_tr),
         top_keyword_prev    |-> entry.data.top_keyword_prev,
         top_keyword_current |-> entry.data.top_keyword_current,
         is_blog             |-> AnyPathIn(entry.key, paths)]

\* body of `for url, data in merged.items()`
MakePage_f64(entry, paths) ==
    LET prev_tr == FloatOrZero_f64(entry.data.prev_traffic)
        curr_tr == FloatOrZero_f64(entry.data.current_traffic)
        diff    == FloatSub(curr_tr, prev_tr)
    IN  [url                 |-> entry.key,
         prev_traffic        |-> prev_tr,
         current_traffic     |-> curr_tr,
         diff                |-> diff,
         diff_ratio          |-> Ratio_f64(diff, prev_tr),
         top_keyword_prev    |-> entry.data.top_keyword_prev,
         top_keyword_current |-> entry.data.top_keyword_current,
         is_blog             |-> AnyPathIn(entry.key, paths)]

merge_months_f64(prev, curr, paths_arg) ==
    LET paths == IF IsNone(paths_arg) THEN DefaultBlogPaths ELSE Val(paths_arg)
        d     == FoldCurr(FoldPrev(<<>>, prev), curr)
        pages == [i \in 1..Len(d) |-> MakePage_f64(d[i], paths)]
    IN  [pages   |-> pages,
         summary |-> [all       |-> summarize_pages_f64(pages),
                      blog_only |-> summarize_pages_f64(BlogOnly(pages))]]

\* both record lists as extracted, their traffic 0, 1, 2 or 2^53, and
\* merge_months not yet called
InitFloat ==
    /\ \E n \in 0..MaxRows, m \in 0..MaxRows :
          LET records == [url : {Url_blog_a, Url_about},
                          traffic : {Float(0, 0), Float(0, 1), Float(0, 2),
                                     Float(FloatExact, 0)},
                          top_keyword : {None}]
          IN  /\ n + m <= MaxRows
              /\ prev_pages \in [1..n -> records]
              /\ curr_pages \in [1..m -> records]
    /\ blog_paths = None
    /\ merged = None
    /\ pc = "input"
    /\ InitGuessIdle /\ InitLoadIdle /\ InitRunIdle

CallMerge_f64 ==
    /\ pc = "input"
    /\ \E b \in BlogPathArgs :
          /\ blog_paths' = b
          /\ merged' = Some(merge_months_f64(prev_pages, curr_pages, b))
    /\ pc' = "done"
    /\ UNCHANGED <<prev_pages, curr_pages>>

NextFloat == CallMerge_f64 /\ UNCHANGED <<guessVars, load, runVars>>

SpecFloat == InitFloat /\ [][NextFloat]_vars

----------------------------------------------------------------------------
(* Consistency of the summary *)

\* the exact sum of the pages' diff values, no rounding
RECURSIVE ExactDiffSum(_)
ExactDiffSum(pages) ==
    IF pages = <<>> THEN Float(0, 0)
    ELSE LET rest == ExactDiffSum(Tail(pages))
         IN  Float(Head(pages).diff.hi + rest.hi, Head(pages).diff.lo + rest.lo)

BlogWithinAll ==
    LET all  == Result.summary.all
        blog == Result.summary.blog_only
    IN  /\ blog.page_count <= all.page_count
        /\ FloatLeq(blog.total_traffic_prev, all.total_traffic_prev)
        /\ FloatLeq(blog.total_traffic_current, all.total_traffic_current)

\* every total is below 2^53, so no addition was rounded
TotalsExact ==
    /\ Result.summary.all.total_traffic_prev.hi < FloatExact
    /\ Result.summary.all.total_traffic_current.hi < FloatExact

\* sum(p["diff"] for p in pages), each addition rounded
FloatDiffSum(pages) == Sum_f64(Float(0, 0), pages, "diff")

\* C23 as stated: in every result of merge_months over records with
\* non-negative traffic, summary.all.page_count is the number of pages,
\* summary.all.total_diff is the sum of the pages' diff values (the exact
\* sum, or the sum as Python adds the floats), and the blog_only page_count
\* and totals are at most those of summary.all.
C23_SummaryConsistent ==
    pc = "done" =>
        /\ Result.summary.all.page_count = Len(Result.pages)
        /\ \/ Result.summary.all.total_diff = ExactDiffSum(Result.pages)
           \/ Result.summary.all.total_diff = FloatDiffSum(Result.pages)
        /\ BlogWithinAll

\* C23 amended: page_count and the blog_only bounds hold always; total_diff
\* is the sum of the pages' diff values whenever both totals stay below 2^53
C23_SummaryConsistentWhenExact ==
    pc = "done" =>
        /\ Result.summary.all.page_count = Len(Result.pages)
        /\ TotalsExact =>
              /\ Result.summary.all.total_diff = ExactDiffSum(Result.pages)
              /\ Result.summary.all.total_diff = FloatDiffSum(Result.pages)
        /\ BlogWithinAll

\* C23 witness: a blog page and another page with different non-zero diffs,
\* totals below 2^53 and a non-zero total_diff
C23_Witness ==
    /\ pc = "done"
    /\ TotalsExact
    /\ Len(Result.pages) >= 2
    /\ \E i, j \in 1..Len(Result.pages) :
          /\ Result.pages[i].is_blog /\ ~Result.pages[j].is_blog
          /\ Result.pages[i].diff /= Float(0, 0)
          /\ Result.pages[j].diff /= Float(0, 0)
          /\ Result.pages[i].diff /= Result.pages[j].diff
    /\ Result.summary.all.total_diff /= Float(0, 0)
    /\ Result.summary.blog_only.page_count < Result.summary.all.page_count

----------------------------------------------------------------------------
(* The two guess_column functions on one header list *)

\* header lists over names the two candidate lists order differently
InitVariants ==
    /\ headers \in UNION {[1..n -> {<<"ペ","ー","ジ","U","R","L">>,
                                     <<"リ","ン","ク","U","R","L">>,
                                     H_URL, H_Traffic, H_Top_keyword}] :
                           n \in 0..MaxHeaders}
    /\ kind \in KindPool
    /\ guessed = None
    /\ shuffled = <<>>
    /\ reguessed = None
    /\ gpc = "start"
    /\ InitMerge
    /\ InitLoadIdle
    /\ InitRunIdle

SpecVariants == InitVariants /\ [][NextGuess]_vars

\* C24: the two backend variants are equivalent: for every header list and
\* kind, guess_column of src/main.py and guess_column of
\* src/report_from_csv.py select the same header (the two merge_months are
\* one definition in this module, the two sources being the same statements).
C24_SameGuess ==
    gpc /= "start" => guess_column_cli(headers, kind) = guessed

====
